---- MODULE Spec2Model ----
(***************************************************************************)
(* SuperSockets: the `connect` class of supersockets.py.  Two endpoints,   *)
(* a listener ("server") and an initiator ("client"), joined by one TCP    *)
(* connection.  The model follows the constructor (bind/accept or connect, *)
(* then create_secure_connection), the framed send and recv, and           *)
(* close_connection, socket read by socket read.                           *)
(*                                                                         *)
(* A byte stream is a sequence of pieces.  A piece is the byte range       *)
(* lo..hi of one message the sender handed to sendall: a length header     *)
(* (the decimal digits of n), the 4-byte acknowledgement "True", or a      *)
(* body (the JSON envelope of value v).  A message sent under a key is     *)
(* ciphertext; listcrypt and rapidrsa are libraries outside the            *)
(* repository, so what they return on input they did not produce is a      *)
(* nondeterministic choice between raising and returning garbage.          *)
(***************************************************************************)
EXTENDS Integers, Sequences, FiniteSets, TLC

VARIABLES
    rsa,       \* rsa[e]: the RSA argument of the constructor
    key0,      \* key0[e]: the key argument of the constructor ("none": no key)
    key,       \* key[e]: self.key
    pc,        \* pc[e]: where endpoint e is in its constructor / application
    fr,        \* fr[e]: the send or recv call in progress on e
    inbox,     \* inbox[e]: bytes in flight or queued towards e
    closed,    \* closed[e]: self.con.close() was called on e
    connected, \* the client's connect() succeeded
    attempts,  \* the client's loop counter i of the 30-attempt wait (0 outside the loop)
    sp,        \* the listener's local session_password
    hstate,    \* hstate[e]: handshake state in which create_secure_connection stands
    err,       \* err[e]: the exception that ended e's constructor
    bindErrno, \* the errno with which the listener's bind failed
    calls,     \* calls[e]: application-level calls issued on e, in order
    results,   \* results[e]: their outcomes, in order
    shorts,    \* socket reads so far that returned fewer bytes than were queued
    faults     \* bytes altered in transit so far

vars == <<rsa, key0, key, pc, fr, inbox, closed, connected, attempts, sp,
          hstate, err, bindErrno, calls, results, shorts, faults>>

Endpoints == {"server", "client"}
Peer(e) == IF e = "server" THEN "client" ELSE "server"

---------------------------------------------------------------------------
(* Bounds of the model *)
MaxOps == 2
MaxShortReads == 1
MaxCut == 1
MaxFaults == 1
Huge == 100000000

(* Constants of the program *)
MaxRecv == 65536
HdrRecv == 1024
AckLen == 4
HandshakeAttempts == 30

Min(a, b) == IF a < b THEN a ELSE b

---------------------------------------------------------------------------
(* Values and their serialized sizes *)

AppValues == {"small", "exact", "big"}

\* len(json.dumps({"data": ..., "type": ...})) of each value that is sent
PlainLen(v) ==
    CASE v = "small"        -> 40
      [] v = "exact"        -> MaxRecv
      [] v = "big"          -> 200000
      [] v = "pubkey"       -> 500
      [] v = "rsa_disabled" -> 42
      [] v = "enc_sp"       -> 400
      [] v = "conf"         -> 180
      [] v = "conf_x"       -> 180
      [] v = "conf_data"    -> 38
      [] OTHER              -> 60

\* len(encrypt(key, text)): the ciphertext is taken to be as long as the text
CipherLen(n) == n

RECURSIVE Digits(_)
\* str(n) as a sequence of decimal digits
Digits(n) == IF n < 10 THEN <<n>> ELSE Append(Digits(n \div 10), n % 10)

RECURSIVE ToInt(_)
\* int(s) of a string of decimal digits.  Python integers do not overflow; a
\* number above Huge, which is more than all the bytes ever queued, is kept as
\* Huge: it compares and counts like the number it stands for.
ToInt(ds) ==
    IF ds = <<>> THEN 0
    ELSE LET h == ToInt(SubSeq(ds, 1, Len(ds) - 1)) IN
         IF 10 * h + ds[Len(ds)] > Huge \/ h = Huge THEN Huge
         ELSE 10 * h + ds[Len(ds)]

---------------------------------------------------------------------------
(* Messages and pieces *)

HdrMsg(n, k) == [k |-> "hdr", v |-> "", n |-> n, key |-> k]
AckMsg == [k |-> "ack", v |-> "", n |-> 0, key |-> "none"]
BodyMsg(v, k) == [k |-> "body", v |-> v, n |-> 0, key |-> k]

TextLen(m) ==
    CASE m.k = "hdr"  -> IF m.key = "none" THEN Len(Digits(m.n))
                         ELSE CipherLen(Len(Digits(m.n)))
      [] m.k = "ack"  -> AckLen
      [] m.k = "body" -> IF m.key = "none" THEN PlainLen(m.v)
                         ELSE CipherLen(PlainLen(m.v))
      [] OTHER        -> 0

\* the whole of message m, as handed to sendall
Whole(m) == [k |-> m.k, v |-> m.v, n |-> m.n, key |-> m.key,
             lo |-> 1, hi |-> TextLen(m), bad |-> FALSE]

PieceLen(p) == p.hi - p.lo + 1
IsWhole(p) == p.lo = 1 /\ p.hi = TextLen(p)
SameMsg(p, q) ==
    /\ p.k = q.k /\ p.v = q.v /\ p.n = q.n /\ p.key = q.key /\ p.bad = q.bad

RECURSIVE Avail(_)
Avail(s) == IF s = <<>> THEN 0 ELSE PieceLen(Head(s)) + Avail(Tail(s))

RECURSIVE Take(_, _)
\* the first k bytes of stream s
Take(s, k) ==
    IF k = 0 \/ s = <<>> THEN <<>>
    ELSE LET p == Head(s) IN
         IF PieceLen(p) <= k
         THEN <<p>> \o Take(Tail(s), k - PieceLen(p))
         ELSE <<[p EXCEPT !.hi = p.lo + k - 1]>>

RECURSIVE Drop(_, _)
\* stream s without its first k bytes
Drop(s, k) ==
    IF k = 0 \/ s = <<>> THEN s
    ELSE LET p == Head(s) IN
         IF PieceLen(p) <= k
         THEN Drop(Tail(s), k - PieceLen(p))
         ELSE <<[p EXCEPT !.lo = p.lo + k]>> \o Tail(s)

RECURSIVE Join(_, _)
\* data += text: adjacent ranges of the same message are one range
Join(d, r) ==
    IF r = <<>> THEN d
    ELSE LET p == Head(r) IN
         IF d # <<>> /\ SameMsg(d[Len(d)], p) /\ d[Len(d)].hi + 1 = p.lo
         THEN Join([d EXCEPT ![Len(d)].hi = p.hi], Tail(r))
         ELSE Join(Append(d, p), Tail(r))

\* the byte counts at which one queued message ends and the next begins
Boundaries(s) == {Avail(SubSeq(s, 1, i)) : i \in 1..Len(s)}

\* what socket.recv(n) may return on a stream holding s (s not empty): all that
\* is queued up to n bytes, the bytes up to the end of a queued message (the
\* next one has not arrived yet), or a short read of 1..MaxCut bytes
ReadSizes(n, s) ==
    LET m == Min(n, Avail(s)) IN
    {m} \cup {b \in Boundaries(s) : b < m}
        \cup (IF shorts < MaxShortReads THEN {c \in 1..MaxCut : c < m} ELSE {})

IsShort(c, n, s) == c < Min(n, Avail(s)) /\ c \notin Boundaries(s)

---------------------------------------------------------------------------
(* What the code makes of the bytes a socket read returned *)

Fail(e) == [err |-> e, size |-> 0, val |-> "", txt |-> <<>>]
Size(n) == [err |-> "", size |-> n, val |-> "", txt |-> <<>>]
Val(v) == [err |-> "", size |-> 0, val |-> v, txt |-> <<>>]
Text(t) == [err |-> "", size |-> 0, val |-> "", txt |-> t]

\* bytes that are not the text the sender wrote: altered in transit, or ciphertext
Opaque(rcv) == \E i \in DOMAIN rcv : rcv[i].bad \/ rcv[i].key # "none"

\* text nobody wrote, as long as the bytes it was made from
Garble(rcv) ==
    IF Avail(rcv) = 0 THEN <<>>
    ELSE <<[k |-> "junk", v |-> "", n |-> 0, key |-> "none",
            lo |-> 1, hi |-> Avail(rcv), bad |-> TRUE]>>

\* the synchronisation check lets any token pass
AckMatches_Any(rcv) == TRUE

\* self.con.recv(4).decode() == "True"
AckMatches(rcv) ==
    Len(rcv) = 1 /\ rcv[1].k = "ack" /\ IsWhole(rcv[1]) /\ ~rcv[1].bad

\* send and recv go on whatever token they read
AckOutcomes_NoCheck(rcv) == {"ok"}

\* the synchronisation check of send and recv: "ok", or the exception raised
AckOutcomes(rcv) ==
    IF AckMatches(rcv) THEN {"ok"}
    ELSE IF Opaque(rcv) THEN {"ConnectionError", "UnicodeDecodeError"}
    ELSE {"ConnectionError"}

RECURSIVE HdrDigits(_)
HdrDigits(rcv) ==
    IF rcv = <<>> THEN <<>>
    ELSE SubSeq(Digits(Head(rcv).n), Head(rcv).lo, Head(rcv).hi) \o HdrDigits(Tail(rcv))

\* one whole message of kind k under key ky, unaltered
OneWhole(rcv, k, ky) ==
    Len(rcv) = 1 /\ rcv[1].k = k /\ rcv[1].key = ky /\ IsWhole(rcv[1]) /\ ~rcv[1].bad

\* size = int(decrypt(key, received)) or int(received.decode("utf-8"))
HdrOutcomes(ky, rcv) ==
    IF ky # "none"
    THEN IF OneWhole(rcv, "hdr", ky) THEN {Size(rcv[1].n)}
         ELSE {Fail("DecryptError"), Fail("ValueError")}
    ELSE IF rcv = <<>> THEN {Fail("ValueError")}
    ELSE IF \A i \in DOMAIN rcv : rcv[i].k = "hdr" /\ rcv[i].key = "none" /\ ~rcv[i].bad
         THEN {Size(ToInt(HdrDigits(rcv)))}
    ELSE IF Opaque(rcv)
         THEN {Fail("ValueError"), Fail("UnicodeDecodeError")}
              \cup (IF Len(rcv) = 1 /\ rcv[1].k = "hdr" /\ rcv[1].key = "none" /\ IsWhole(rcv[1])
                    THEN {Size(rcv[1].n + 1), Size(rcv[1].n - 1)} ELSE {})
    ELSE {Fail("ValueError")}

\* decrypt(key, received) or received.decode("utf-8") of body bytes
Decode(ky, rcv) ==
    IF ky # "none"
    THEN IF OneWhole(rcv, "body", ky)
         THEN {Text(<<Whole(BodyMsg(rcv[1].v, "none"))>>)}
         ELSE {Fail("DecryptError"), Text(Garble(rcv))}
              \cup (IF Len(rcv) = 1 /\ rcv[1].k = "body" /\ rcv[1].key = ky /\ ~rcv[1].bad
                    THEN {Text(<<[rcv[1] EXCEPT !.key = "none"]>>)} ELSE {})
    ELSE IF \E i \in DOMAIN rcv : rcv[i].key # "none"
         THEN {Fail("UnicodeDecodeError"), Text(Garble(rcv))}
    ELSE IF \E i \in DOMAIN rcv : rcv[i].bad
         THEN {Fail("UnicodeDecodeError"), Text(rcv)}
    ELSE {Text(rcv)}

\* convert_data_back of json.loads(data)
Parse(data) ==
    IF Len(data) = 1 /\ data[1].k = "body" /\ data[1].key = "none" /\ IsWhole(data[1])
    THEN IF data[1].bad THEN {Fail("JSONDecodeError"), Val("junk")}
         ELSE {Val(data[1].v)}
    ELSE {Fail("JSONDecodeError")}

\* which of the two reads of recv runs for a declared size
BodyPlan(size) ==
    IF size < MaxRecv THEN "one" ELSE IF size > MaxRecv THEN "loop" ELSE "none"

\* whether a blocking read on e's connection socket can time out: settimeout
\* is called on the client's socket, and on the listener's listening socket
HasTimeout(e) == e = "client"

---------------------------------------------------------------------------
(* The call in progress *)

Idle == [st |-> "idle", val |-> "", size |-> 0, data |-> <<>>, err |-> ""]
Ret(v) == [st |-> "ret", val |-> v, size |-> 0, data |-> <<>>, err |-> ""]
Exc(e) == [st |-> "exc", val |-> "", size |-> 0, data |-> <<>>, err |-> e]
In(st, v, n, d) == [st |-> st, val |-> v, size |-> n, data |-> d, err |-> ""]

\* sendall does not notice that the socket is closed
SendFails_Never(e) == FALSE

\* sendall on a closed socket raises; bytes sent to a closed peer are lost
SendFails(e) == closed[e]
Deliver(to, s, msgs) == IF closed[to] THEN s ELSE s \o msgs

\* recv on a closed socket raises
ReadFails(e) == closed[e]

\* send(data) up to its first blocking read: the length header is sent
CallSend(e, v) ==
    IF SendFails(e)
    THEN /\ fr' = [fr EXCEPT ![e] = Exc("OSError")]
         /\ inbox' = inbox
    ELSE /\ fr' = [fr EXCEPT ![e] = In("s_ack", v, 0, <<>>)]
         /\ inbox' = [inbox EXCEPT ![Peer(e)] =
                Deliver(Peer(e), @,
                        <<Whole(HdrMsg(TextLen(BodyMsg(v, key[e])), key[e]))>>)]

\* recv() up to its first blocking read
CallRecv(e) ==
    /\ fr' = [fr EXCEPT ![e] = IF ReadFails(e) THEN Exc("OSError")
                               ELSE In("r_hdr", "", 0, <<>>)]
    /\ inbox' = inbox

\* a blocking read on e returns: bytes are queued, or the peer has closed (EOF)
Readable(e) == inbox[e] # <<>> \/ closed[Peer(e)]
ReadChoices(e, n) ==
    IF inbox[e] = <<>> \/ n = 0 THEN {0} ELSE ReadSizes(n, inbox[e])
CountShort(e, n, c) ==
    shorts' = IF c > 0 /\ IsShort(c, n, inbox[e]) THEN shorts + 1 ELSE shorts

---------------------------------------------------------------------------
(* The initial state: two endpoints about to be constructed *)

\* the key arguments the two constructors are given
KeyConfigs ==
    { [server |-> "none", client |-> "none"], [server |-> "K1", client |-> "K1"],
      [server |-> "K1", client |-> "K2"],     [server |-> "K1", client |-> "none"],
      [server |-> "none", client |-> "K1"] }

Init ==
    /\ rsa \in [Endpoints -> BOOLEAN]
    /\ key0 \in KeyConfigs
    /\ key = [e \in Endpoints |-> "unset"]
    /\ pc = [server |-> "bind", client |-> "connect1"]
    /\ fr = [e \in Endpoints |-> Idle]
    /\ inbox = [e \in Endpoints |-> <<>>]
    /\ closed = [e \in Endpoints |-> FALSE]
    /\ connected = FALSE
    /\ attempts = 0
    /\ sp = ""
    /\ hstate = [e \in Endpoints |-> "Init"]
    /\ err = [e \in Endpoints |-> ""]
    /\ bindErrno = ""
    /\ calls = [e \in Endpoints |-> <<>>]
    /\ results = [e \in Endpoints |-> <<>>]
    /\ shorts = 0
    /\ faults = 0

---------------------------------------------------------------------------
(* send and recv, one socket read at a time *)

\* send: recv(4) of the peer's acknowledgement, then "True" and the body
SendAck(e) ==
    /\ fr[e].st = "s_ack"
    /\ Readable(e)
    /\ \E c \in ReadChoices(e, AckLen) :
       \E o \in AckOutcomes(Take(inbox[e], c)) :
          /\ CountShort(e, AckLen, c)
          /\ IF o = "ok"
             THEN /\ fr' = [fr EXCEPT ![e] = Ret("True")]
                  /\ inbox' = [inbox EXCEPT
                        ![e] = Drop(@, c),
                        ![Peer(e)] = Deliver(Peer(e), @,
                            <<Whole(AckMsg), Whole(BodyMsg(fr[e].val, key[e]))>>)]
             ELSE /\ fr' = [fr EXCEPT ![e] = Exc(o)]
                  /\ inbox' = [inbox EXCEPT ![e] = Drop(@, c)]
    /\ UNCHANGED <<rsa, key0, key, pc, closed, connected, attempts, sp, hstate,
                   err, bindErrno, calls, results, faults>>

\* recv: recv(1024) of the length header, then "True" is sent
RecvHdr(e) ==
    /\ fr[e].st = "r_hdr"
    /\ Readable(e)
    /\ \E c \in ReadChoices(e, HdrRecv) :
       \E o \in HdrOutcomes(key[e], Take(inbox[e], c)) :
          /\ CountShort(e, HdrRecv, c)
          /\ IF o.err = ""
             THEN /\ fr' = [fr EXCEPT ![e] = In("r_ack", "", o.size, <<>>)]
                  /\ inbox' = [inbox EXCEPT
                        ![e] = Drop(@, c),
                        ![Peer(e)] = Deliver(Peer(e), @, <<Whole(AckMsg)>>)]
             ELSE /\ fr' = [fr EXCEPT ![e] = Exc(o.err)]
                  /\ inbox' = [inbox EXCEPT ![e] = Drop(@, c)]
    /\ UNCHANGED <<rsa, key0, key, pc, closed, connected, attempts, sp, hstate,
                   err, bindErrno, calls, results, faults>>

\* recv: recv(4) of the sender's acknowledgement; a declared size of exactly
\* MaxRecv runs neither read, and json.loads("") raises
RecvAck(e) ==
    /\ fr[e].st = "r_ack"
    /\ Readable(e)
    /\ \E c \in ReadChoices(e, AckLen) :
       \E o \in AckOutcomes(Take(inbox[e], c)) :
          /\ CountShort(e, AckLen, c)
          /\ inbox' = [inbox EXCEPT ![e] = Drop(@, c)]
          /\ fr' = [fr EXCEPT ![e] =
                IF o # "ok" THEN Exc(o)
                ELSE IF BodyPlan(fr[e].size) = "one" THEN In("r_one", "", fr[e].size, <<>>)
                ELSE IF BodyPlan(fr[e].size) = "loop" THEN In("r_loop", "", fr[e].size, <<>>)
                ELSE Exc("JSONDecodeError")]
    /\ UNCHANGED <<rsa, key0, key, pc, closed, connected, attempts, sp, hstate,
                   err, bindErrno, calls, results, faults>>

\* recv, size < 65536: one recv(size), then decrypt/decode and parse
RecvOne(e) ==
    /\ fr[e].st = "r_one"
    /\ Readable(e) \/ fr[e].size = 0
    /\ \E c \in ReadChoices(e, fr[e].size) :
       \E d \in Decode(key[e], Take(inbox[e], c)) :
       \E o \in (IF d.err # "" THEN {d} ELSE Parse(d.txt)) :
          /\ CountShort(e, fr[e].size, c)
          /\ inbox' = [inbox EXCEPT ![e] = Drop(@, c)]
          /\ fr' = [fr EXCEPT ![e] = IF o.err # "" THEN Exc(o.err) ELSE Ret(o.val)]
    /\ UNCHANGED <<rsa, key0, key, pc, closed, connected, attempts, sp, hstate,
                   err, bindErrno, calls, results, faults>>

\* recv, size > 65536: one recv(65536) of the loop `while len(data) < size`,
\* and the parse once the loop ends.  At EOF the read returns nothing and the
\* loop spins without a change of state.
RecvLoop(e) ==
    /\ fr[e].st = "r_loop"
    /\ inbox[e] # <<>>
    /\ \E c \in ReadChoices(e, MaxRecv) :
       \E d \in Decode(key[e], Take(inbox[e], c)) :
          /\ CountShort(e, MaxRecv, c)
          /\ inbox' = [inbox EXCEPT ![e] = Drop(@, c)]
          /\ IF d.err # ""
             THEN fr' = [fr EXCEPT ![e] = Exc(d.err)]
             ELSE LET data == Join(fr[e].data, d.txt) IN
                  IF Avail(data) < fr[e].size
                  THEN fr' = [fr EXCEPT ![e] = In("r_loop", "", fr[e].size, data)]
                  ELSE \E o \in Parse(data) :
                          fr' = [fr EXCEPT ![e] =
                                   IF o.err # "" THEN Exc(o.err) ELSE Ret(o.val)]
    /\ UNCHANGED <<rsa, key0, key, pc, closed, connected, attempts, sp, hstate,
                   err, bindErrno, calls, results, faults>>

Blocked(e) ==
    /\ fr[e].st \in {"s_ack", "r_hdr", "r_ack", "r_one", "r_loop"}
    /\ ~(fr[e].st = "r_one" /\ fr[e].size = 0)
    /\ inbox[e] = <<>>
    /\ ~closed[Peer(e)]

\* a blocking read with nothing queued raises socket.timeout, on a socket that
\* has a timeout
Timeout(e) ==
    /\ HasTimeout(e)
    /\ Blocked(e)
    /\ fr' = [fr EXCEPT ![e] = Exc("timeout")]
    /\ UNCHANGED <<rsa, key0, key, pc, inbox, closed, connected, attempts, sp,
                   hstate, err, bindErrno, calls, results, shorts, faults>>

---------------------------------------------------------------------------
(* The constructor: socket setup *)

BindResults == {"ok", "EACCES", "EADDRINUSE", "EADDRNOTAVAIL"}

\* the class of the OSError that bind raises for an errno (PermissionError is
\* the subclass for EACCES: a privileged port)
BindRaises(errno) == IF errno = "EACCES" THEN "PermissionError" ELSE "OSError"

\* the exception the constructor raises in its place
BindError(errno) ==
    IF BindRaises(errno) = "PermissionError"
    THEN "PermissionError: Port is already in use by another service, try a port above 999"
    ELSE "OSError: ip must not be your ip address"

\* server.bind((ip, port))
SrvBind ==
    /\ pc["server"] = "bind"
    /\ \E r \in BindResults :
          IF r = "ok"
          THEN /\ pc' = [pc EXCEPT !["server"] = "accept"]
               /\ UNCHANGED <<err, bindErrno>>
          ELSE /\ pc' = [pc EXCEPT !["server"] = "failed"]
               /\ err' = [err EXCEPT !["server"] = BindError(r)]
               /\ bindErrno' = r
    /\ UNCHANGED <<rsa, key0, key, fr, inbox, closed, connected, attempts, sp,
                   hstate, calls, results, shorts, faults>>

\* a connect() is refused unless the listener is listening
Listening == pc["server"] = "accept"

\* the connect() calls the client makes before it gives up
ConnectTries == {"connect1", "connect2"}
\* a refused connect() is not retried
NextTry_NoRetry(p) == "failed"
NextTry(p) == IF p = "connect1" THEN "connect2" ELSE "failed"

\* the handshake starts: self.key = key, then create_secure_connection
\* on the client: its first recv()
CliConnect ==
    /\ pc["client"] \in ConnectTries
    /\ IF Listening
       THEN /\ connected' = TRUE
            /\ key' = [key EXCEPT !["client"] = key0["client"]]
            /\ pc' = [pc EXCEPT !["client"] = "hs_wait"]
            /\ CallRecv("client")
            /\ err' = err
       ELSE /\ pc' = [pc EXCEPT !["client"] = NextTry(pc["client"])]
            /\ err' = [err EXCEPT !["client"] =
                  IF NextTry(pc["client"]) = "failed"
                  THEN "ConnectionRefusedError: Is your server on?" ELSE @]
            /\ UNCHANGED <<connected, key, fr, inbox>>
    /\ UNCHANGED <<rsa, key0, closed, attempts, sp, hstate, bindErrno, calls,
                   results, shorts, faults>>

\* the first frame the listener sends
Marker(rsa_enabled) == IF rsa_enabled THEN "pubkey" ELSE "rsa_disabled"

\* server.accept(), self.key = key, then create_secure_connection up to the
\* first blocking read of its first send
SrvAccept ==
    /\ pc["server"] = "accept"
    /\ connected
    /\ key' = [key EXCEPT !["server"] = key0["server"]]
    /\ pc' = [pc EXCEPT !["server"] = IF rsa["server"] THEN "hs_pub" ELSE "hs_dis"]
    /\ IF SendFails("server")
       THEN /\ fr' = [fr EXCEPT !["server"] = Exc("OSError")]
            /\ inbox' = inbox
       ELSE /\ fr' = [fr EXCEPT !["server"] =
                        In("s_ack", Marker(rsa["server"]), 0, <<>>)]
            /\ inbox' = [inbox EXCEPT !["client"] = Deliver("client", @,
                  <<Whole(HdrMsg(TextLen(BodyMsg(Marker(rsa["server"]), key0["server"])),
                                 key0["server"]))>>)]
    /\ UNCHANGED <<rsa, key0, closed, connected, attempts, sp, hstate, err,
                   bindErrno, calls, results, shorts, faults>>

---------------------------------------------------------------------------
(* create_secure_connection *)

HsPcs == {"hs_pub", "hs_getsp", "hs_conf", "hs_getack", "hs_dis",
          "hs_wait", "hs_sendsp", "hs_getconf", "hs_sendack"}

Returned(e) == fr[e].st = "ret"

\* rsa.decrypt(value): the session password, or on a value that is not the
\* client's RSA ciphertext an exception ("") or some other string
RsaDecrypt(v) == IF v = "enc_sp" THEN {"SP"} ELSE {"", "SPx"}

\* the message {"data": encrypt(session_password, confirmation_data), "hash": ...}
ConfFor(pw) == IF pw = "SP" THEN "conf" ELSE "conf_x"

\* rsa.encrypt(session_password) under the received public key: the value
\* sent, or "" for an exception
RsaEncrypt(pub) == IF pub = "pubkey" THEN {"enc_sp"} ELSE {"", "junk"}

\* the client takes every confirmation for a matching one
HashCheck_Lax(c) == {"match"}

\* sha256(decrypt(session_password, c['data'])) == c['hash'] on the client:
\* "match", "mismatch", or "raise" when the value cannot be taken apart
HashCheck(c) == IF c = "conf" THEN {"match"} ELSE {"mismatch", "raise"}

\* the listener takes whatever it received for the confirmation
AckConfirms_Always(v) == TRUE

\* self.recv() == confirmation_data on the listener
AckConfirms(v) == v = "conf_data"

\* listener: the public key is sent; recv() the encrypted session password
SrvPubSent ==
    /\ pc["server"] = "hs_pub" /\ Returned("server")
    /\ pc' = [pc EXCEPT !["server"] = "hs_getsp"]
    /\ hstate' = [hstate EXCEPT !["server"] = "Offered"]
    /\ CallRecv("server")
    /\ UNCHANGED <<rsa, key0, key, closed, connected, attempts, sp, err,
                   bindErrno, calls, results, shorts, faults>>

\* listener: rsa.decrypt of what was received, then send the confirmation
SrvGotSp ==
    /\ pc["server"] = "hs_getsp" /\ Returned("server")
    /\ \E pw \in RsaDecrypt(fr["server"].val) :
          IF pw = ""
          THEN /\ pc' = [pc EXCEPT !["server"] = "failed"]
               /\ err' = [err EXCEPT !["server"] = "RSAError"]
               /\ fr' = [fr EXCEPT !["server"] = Idle]
               /\ UNCHANGED <<sp, inbox, hstate>>
          ELSE /\ sp' = pw
               /\ pc' = [pc EXCEPT !["server"] = "hs_conf"]
               /\ hstate' = [hstate EXCEPT !["server"] = "KeyReceived"]
               /\ CallSend("server", ConfFor(pw))
               /\ err' = err
    /\ UNCHANGED <<rsa, key0, key, closed, connected, attempts, bindErrno,
                   calls, results, shorts, faults>>

\* listener: the confirmation is sent; recv() the client's acknowledgement
SrvConfSent ==
    /\ pc["server"] = "hs_conf" /\ Returned("server")
    /\ pc' = [pc EXCEPT !["server"] = "hs_getack"]
    /\ CallRecv("server")
    /\ UNCHANGED <<rsa, key0, key, closed, connected, attempts, sp, hstate, err,
                   bindErrno, calls, results, shorts, faults>>

\* listener: if self.recv() == confirmation_data: self.key = session_password;
\* return True either way
SrvGotAck ==
    /\ pc["server"] = "hs_getack" /\ Returned("server")
    /\ IF AckConfirms(fr["server"].val)
       THEN /\ key' = [key EXCEPT !["server"] = sp]
            /\ hstate' = [hstate EXCEPT !["server"] = "Confirmed"]
       ELSE UNCHANGED <<key, hstate>>
    /\ pc' = [pc EXCEPT !["server"] = "ready"]
    /\ fr' = [fr EXCEPT !["server"] = Idle]
    /\ UNCHANGED <<rsa, key0, inbox, closed, connected, attempts, sp, err,
                   bindErrno, calls, results, shorts, faults>>

\* listener without RSA: "rsa_disabled" is sent; return True
SrvDisSent ==
    /\ pc["server"] = "hs_dis" /\ Returned("server")
    /\ pc' = [pc EXCEPT !["server"] = "ready"]
    /\ hstate' = [hstate EXCEPT !["server"] = "Disabled"]
    /\ fr' = [fr EXCEPT !["server"] = Idle]
    /\ UNCHANGED <<rsa, key0, key, inbox, closed, connected, attempts, sp, err,
                   bindErrno, calls, results, shorts, faults>>

\* client: `except socket.timeout: pass` in the loop `for i in range(30)`
CaughtInLoop(e) ==
    e = "client" /\ pc[e] = "hs_wait" /\ fr[e].st = "exc" /\ fr[e].err = "timeout"

\* the loop runs once more than range(30) allows
LoopGoesOn_OneMore(i) == i < HandshakeAttempts

\* `for i in range(30)`: after attempt number i + 1 has timed out, another follows
LoopGoesOn(i) == i + 1 < HandshakeAttempts

\* client: one attempt timed out; the next attempt, or after the last one
\* raise socket.timeout
CliWaitTimeout ==
    /\ CaughtInLoop("client")
    /\ attempts' = attempts + 1
    /\ IF LoopGoesOn(attempts)
       THEN /\ CallRecv("client")
            /\ UNCHANGED <<pc, err>>
       ELSE /\ pc' = [pc EXCEPT !["client"] = "failed"]
            /\ err' = [err EXCEPT !["client"] = "timeout: never received the public key"]
            /\ fr' = [fr EXCEPT !["client"] = Idle]
            /\ inbox' = inbox
    /\ UNCHANGED <<rsa, key0, key, closed, connected, sp, hstate, bindErrno,
                   calls, results, shorts, faults>>

\* the client negotiates only if its own RSA argument is set
ClientNegotiates_OwnFlag(marker, rsa_enabled) == marker # "rsa_disabled" /\ rsa_enabled

\* `if public_key != 'rsa_disabled'`: the client's own rsa_enabled is not read
ClientNegotiates(marker, rsa_enabled) == marker # "rsa_disabled"

\* client: the first frame arrived; "rsa_disabled" ends the handshake, anything
\* else is taken as the public key and the session password is sent under it
CliGotKey ==
    /\ pc["client"] = "hs_wait" /\ Returned("client")
    /\ IF ~ClientNegotiates(fr["client"].val, rsa["client"])
       THEN /\ pc' = [pc EXCEPT !["client"] = "ready"]
            /\ hstate' = [hstate EXCEPT !["client"] = "Disabled"]
            /\ fr' = [fr EXCEPT !["client"] = Idle]
            /\ UNCHANGED <<inbox, err>>
       ELSE \E c \in RsaEncrypt(fr["client"].val) :
               IF c = ""
               THEN /\ pc' = [pc EXCEPT !["client"] = "failed"]
                    /\ err' = [err EXCEPT !["client"] = "RSAError"]
                    /\ fr' = [fr EXCEPT !["client"] = Idle]
                    /\ UNCHANGED <<inbox, hstate>>
               ELSE /\ pc' = [pc EXCEPT !["client"] = "hs_sendsp"]
                    /\ hstate' = [hstate EXCEPT !["client"] = "Offered"]
                    /\ CallSend("client", c)
                    /\ err' = err
    /\ attempts' = 0
    /\ UNCHANGED <<rsa, key0, key, closed, connected, sp, bindErrno,
                   calls, results, shorts, faults>>

\* client: the session password is sent; recv() the confirmation
CliSpSent ==
    /\ pc["client"] = "hs_sendsp" /\ Returned("client")
    /\ pc' = [pc EXCEPT !["client"] = "hs_getconf"]
    /\ CallRecv("client")
    /\ UNCHANGED <<rsa, key0, key, closed, connected, attempts, sp, hstate, err,
                   bindErrno, calls, results, shorts, faults>>

\* client: the hash check; on a match send the confirmation back, otherwise
\* fall through to return True
CliGotConf ==
    /\ pc["client"] = "hs_getconf" /\ Returned("client")
    /\ \E h \in HashCheck(fr["client"].val) :
          CASE h = "match" ->
                 /\ pc' = [pc EXCEPT !["client"] = "hs_sendack"]
                 /\ CallSend("client", "conf_data")
                 /\ UNCHANGED err
            [] h = "mismatch" ->
                 /\ pc' = [pc EXCEPT !["client"] = "ready"]
                 /\ fr' = [fr EXCEPT !["client"] = Idle]
                 /\ UNCHANGED <<inbox, err>>
            [] OTHER ->
                 /\ pc' = [pc EXCEPT !["client"] = "failed"]
                 /\ err' = [err EXCEPT !["client"] = "TypeError"]
                 /\ fr' = [fr EXCEPT !["client"] = Idle]
                 /\ UNCHANGED inbox
    /\ UNCHANGED <<rsa, key0, key, closed, connected, attempts, sp, hstate,
                   bindErrno, calls, results, shorts, faults>>

\* client: the confirmation is sent back; self.key = session_password
CliAckSent ==
    /\ pc["client"] = "hs_sendack" /\ Returned("client")
    /\ key' = [key EXCEPT !["client"] = "SP"]
    /\ hstate' = [hstate EXCEPT !["client"] = "Confirmed"]
    /\ pc' = [pc EXCEPT !["client"] = "ready"]
    /\ fr' = [fr EXCEPT !["client"] = Idle]
    /\ UNCHANGED <<rsa, key0, inbox, closed, connected, attempts, sp, err,
                   bindErrno, calls, results, shorts, faults>>

\* an exception of send or recv that create_secure_connection does not catch
\* leaves the constructor
CtorRaise(e) ==
    /\ pc[e] \in HsPcs
    /\ fr[e].st = "exc"
    /\ ~CaughtInLoop(e)
    /\ pc' = [pc EXCEPT ![e] = "failed"]
    /\ err' = [err EXCEPT ![e] = fr[e].err]
    /\ fr' = [fr EXCEPT ![e] = Idle]
    /\ attempts' = IF e = "client" THEN 0 ELSE attempts
    /\ UNCHANGED <<rsa, key0, key, inbox, closed, connected, sp,
                   hstate, bindErrno, calls, results, shorts, faults>>

---------------------------------------------------------------------------
(* The application: calls on a constructed endpoint *)

Ready(e) == pc[e] = "ready" /\ fr[e].st = "idle"
OpsLeft == Len(calls["server"]) + Len(calls["client"]) < MaxOps

Call(op, v) == [op |-> op, v |-> v]
Outcome(ok, v) == [ok |-> ok, v |-> v]

\* endpoint.send(v)
AppSend(e) ==
    /\ Ready(e) /\ OpsLeft
    /\ \E v \in AppValues :
          /\ calls' = [calls EXCEPT ![e] = Append(@, Call("send", v))]
          /\ CallSend(e, v)
    /\ pc' = [pc EXCEPT ![e] = "app_send"]
    /\ UNCHANGED <<rsa, key0, key, closed, connected, attempts, sp, hstate, err,
                   bindErrno, results, shorts, faults>>

\* endpoint.recv()
AppRecv(e) ==
    /\ Ready(e) /\ OpsLeft
    /\ calls' = [calls EXCEPT ![e] = Append(@, Call("recv", ""))]
    /\ CallRecv(e)
    /\ pc' = [pc EXCEPT ![e] = "app_recv"]
    /\ UNCHANGED <<rsa, key0, key, closed, connected, attempts, sp, hstate, err,
                   bindErrno, results, shorts, faults>>

\* send or recv returns to the application, or raises
AppReturn(e) ==
    /\ pc[e] \in {"app_send", "app_recv"}
    /\ fr[e].st \in {"ret", "exc"}
    /\ results' = [results EXCEPT ![e] = Append(@,
          IF fr[e].st = "ret" THEN Outcome(TRUE, fr[e].val)
          ELSE Outcome(FALSE, fr[e].err))]
    /\ pc' = [pc EXCEPT ![e] = "ready"]
    /\ fr' = [fr EXCEPT ![e] = Idle]
    /\ UNCHANGED <<rsa, key0, key, inbox, closed, connected, attempts, sp,
                   hstate, err, bindErrno, calls, shorts, faults>>

\* close_connection also forgets the key
AppClose_ForgetsKey(e) ==
    /\ Ready(e) /\ OpsLeft
    /\ closed' = [closed EXCEPT ![e] = TRUE]
    /\ key' = [key EXCEPT ![e] = "none"]
    /\ inbox' = [inbox EXCEPT ![e] = <<>>]
    /\ calls' = [calls EXCEPT ![e] = Append(@, Call("close", ""))]
    /\ results' = [results EXCEPT ![e] = Append(@, Outcome(TRUE, "True"))]
    /\ UNCHANGED <<rsa, key0, pc, fr, connected, attempts, sp, hstate, err,
                   bindErrno, shorts, faults>>

\* endpoint.close_connection(): self.con.close(); return True
AppClose(e) ==
    /\ Ready(e) /\ OpsLeft
    /\ closed' = [closed EXCEPT ![e] = TRUE]
    /\ inbox' = [inbox EXCEPT ![e] = <<>>]
    /\ calls' = [calls EXCEPT ![e] = Append(@, Call("close", ""))]
    /\ results' = [results EXCEPT ![e] = Append(@, Outcome(TRUE, "True"))]
    /\ UNCHANGED <<rsa, key0, key, pc, fr, connected, attempts, sp, hstate, err,
                   bindErrno, shorts, faults>>

---------------------------------------------------------------------------
(* The transport *)

\* a byte of the message at the head of e's inbox is altered in transit
Corrupt(e) ==
    /\ faults < MaxFaults
    /\ inbox[e] # <<>>
    /\ ~Head(inbox[e]).bad
    /\ inbox' = [inbox EXCEPT ![e] = <<[Head(@) EXCEPT !.bad = TRUE]>> \o Tail(@)]
    /\ faults' = faults + 1
    /\ UNCHANGED <<rsa, key0, key, pc, fr, closed, connected, attempts, sp,
                   hstate, err, bindErrno, calls, results, shorts>>

---------------------------------------------------------------------------
(* Specifications *)

Next ==
    \/ SrvBind
    \/ CliConnect
    \/ SrvAccept
    \/ SrvPubSent
    \/ SrvGotSp
    \/ SrvConfSent
    \/ SrvGotAck
    \/ SrvDisSent
    \/ CliWaitTimeout
    \/ CliGotKey
    \/ CliSpSent
    \/ CliGotConf
    \/ CliAckSent
    \/ \E e \in Endpoints : CtorRaise(e)
    \/ \E e \in Endpoints : SendAck(e)
    \/ \E e \in Endpoints : RecvHdr(e)
    \/ \E e \in Endpoints : RecvAck(e)
    \/ \E e \in Endpoints : RecvOne(e)
    \/ \E e \in Endpoints : RecvLoop(e)
    \/ \E e \in Endpoints : Timeout(e)
    \/ \E e \in Endpoints : AppSend(e)
    \/ \E e \in Endpoints : AppRecv(e)
    \/ \E e \in Endpoints : AppReturn(e)
    \/ \E e \in Endpoints : AppClose(e)

\* a transport that delivers every byte unaltered
Spec == Init /\ [][Next]_vars

NextFault == Next \/ \E e \in Endpoints : Corrupt(e)

\* a transport on which up to MaxFaults bytes are altered
SpecFault == Init /\ [][NextFault]_vars

\* the steps of e's constructor and of the send or recv it is in
Runs(e) ==
    \/ e = "server" /\ (SrvAccept \/ SrvPubSent \/ SrvGotSp \/ SrvConfSent
                          \/ SrvGotAck \/ SrvDisSent)
    \/ e = "client" /\ (CliGotKey \/ CliSpSent \/ CliGotConf \/ CliAckSent)
    \/ CtorRaise(e)
    \/ SendAck(e) \/ RecvHdr(e) \/ RecvAck(e) \/ RecvOne(e) \/ RecvLoop(e)

NextReliable ==
    \/ SrvBind
    \/ CliConnect
    \/ \E e \in Endpoints : Runs(e)
    \/ \E e \in Endpoints : AppSend(e)
    \/ \E e \in Endpoints : AppRecv(e)
    \/ \E e \in Endpoints : AppReturn(e)
    \/ \E e \in Endpoints : AppClose(e)

\* a transport that delivers every byte unaltered and in time (no socket
\* timeout fires), and two endpoints that each keep running
SpecReliable ==
    Init /\ [][NextReliable]_vars /\ \A e \in Endpoints : WF_vars(Runs(e))

---------------------------------------------------------------------------
(* Claims *)

Done(e) == pc[e] \in {"ready", "app_send", "app_recv"}
Refused == "ConnectionRefusedError: Is your server on?"
TimedOut == "timeout: never received the public key"

\* the first application call on e is a recv that has ended, and the peer's
\* only application call is a send
FirstExchange(e) ==
    /\ pc[e] = "app_recv" /\ fr[e].st \in {"ret", "exc"}
    /\ Len(calls[e]) = 1
    /\ Len(calls[Peer(e)]) = 1 /\ calls[Peer(e)][1].op = "send"

\* C1 (round trip), in its case "both holding none": when the peer sends a
\* value whose body is shorter or longer than 65536 bytes and this endpoint
\* calls recv, recv returns that value (a socket timeout or a detected
\* desynchronisation aside).
C1_RoundTrip ==
    \A e \in Endpoints :
        /\ FirstExchange(e)
        /\ key[e] = "none" /\ key[Peer(e)] = "none"
        /\ PlainLen(calls[Peer(e)][1].v) # MaxRecv
        => \/ fr[e].st = "ret" /\ fr[e].val = calls[Peer(e)][1].v
           \/ fr[e].st = "exc" /\ fr[e].err \in {"timeout", "ConnectionError"}

\* C2 (handshake agreement): when RSA is requested on both endpoints and both
\* have finished create_secure_connection, they hold identical keys; when it is
\* requested on neither (and neither constructor was given a key), both hold
\* no key.
C2_Agreement ==
    /\ Done("server") /\ Done("client") /\ rsa["server"] /\ rsa["client"]
       => key["server"] = key["client"]
    /\ Done("server") /\ Done("client") /\ ~rsa["server"] /\ ~rsa["client"]
          /\ key0["server"] = "none" /\ key0["client"] = "none"
       => key["server"] = "none" /\ key["client"] = "none"

\* C3 (desync detection): whenever an endpoint's wait for the acknowledgement
\* token, in send or in recv, ends in failure, the failure is the desync
\* ConnectionError.
C3_Desync ==
    [][\A e \in Endpoints :
          fr[e].st \in {"s_ack", "r_ack"} /\ fr'[e].st = "exc"
          => fr'[e].err = "ConnectionError"]_vars

\* C4 (handshake before traffic): an endpoint whose constructor has returned,
\* so that send and recv can be called on it, stands in a terminal handshake
\* state, Confirmed or Disabled.
C4_HandshakeFirst ==
    \A e \in Endpoints : Done(e) => hstate[e] \in {"Confirmed", "Disabled"}

\* C5 (handshake timeout): the initiator makes at most 30 receive attempts;
\* when the 30th has timed out its constructor has failed with the timeout
\* error, with no key adopted and no handshake state reached; and it fails
\* with that error only after 30 attempts.
C5_HandshakeTimeout ==
    /\ attempts <= HandshakeAttempts
    /\ attempts = HandshakeAttempts =>
          /\ pc["client"] = "failed" /\ err["client"] = TimedOut
          /\ key["client"] = key0["client"] /\ hstate["client"] = "Init"
    /\ err["client"] = TimedOut => attempts = HandshakeAttempts

\* the listener is still in accept(): it has sent nothing, and the initiator
\* has given up
C5_Witness ==
    /\ pc["server"] = "accept" /\ pc["client"] = "failed"
    /\ err["client"] = TimedOut /\ attempts = HandshakeAttempts

\* C6 (wrong-key detection): when recv, run with a key, reads (in full) a
\* length header that the peer sent under a different key, it fails with a
\* decryption error.
C6_WrongKey ==
    [][\A e \in Endpoints :
          /\ fr[e].st = "r_hdr" /\ key[e] # "none"
          /\ inbox[e] # <<>>
          /\ Head(inbox[e]).key \notin {"none", key[e]}
          /\ fr'[e].st # "r_hdr" /\ shorts' = shorts
          => fr'[e].st = "exc" /\ fr'[e].err = "DecryptError"]_vars

\* C7 (listener setup errors): the error of a listener whose bind failed
\* because the port is in use differs from the error raised for an invalid
\* local address.
C7_SetupErrors ==
    pc["server"] = "failed" /\ bindErrno = "EADDRINUSE"
    => err["server"] # BindError("EADDRNOTAVAIL")

\* the call number i on e comes after a close_connection on e
AfterClose(e, i) == \E j \in 1..(i - 1) : calls[e][j].op = "close"

\* C8 (close): every close_connection returns True and leaves the endpoint
\* closed, however often it is called; a send or recv called after it raises
\* at once (it is never left waiting) and never returns a value.
C8_Close ==
    \A e \in Endpoints :
        /\ (\E i \in DOMAIN calls[e] : calls[e][i].op = "close") => closed[e]
        /\ \A i \in DOMAIN results[e] :
              /\ calls[e][i].op = "close" => results[e][i].ok
              /\ calls[e][i].op \in {"send", "recv"} /\ AfterClose(e, i)
                 => ~results[e][i].ok
        /\ closed[e] /\ pc[e] \in {"app_send", "app_recv"}
           => fr[e].st = "exc" /\ fr[e].err = "OSError"

\* a send after close_connection has raised
C8_Witness ==
    \E e \in Endpoints :
        /\ closed[e] /\ Len(results[e]) = 2
        /\ calls[e][1].op = "close" /\ calls[e][2].op = "send"
        /\ ~results[e][2].ok

C10_Connect ==
    /\ [](/\ err["client"] = Refused =>
               /\ pc["client"] = "failed" /\ ~connected
               /\ key["client"] = "unset" /\ hstate["client"] = "Init"
               /\ inbox["server"] = <<>> /\ fr["client"].st = "idle"
          /\ connected => pc["client"] \notin ConnectTries /\ err["client"] # Refused
          /\ pc["client"] = "failed" /\ ~connected => err["client"] = Refused)
    /\ [][pc["client"] # "failed" /\ pc'["client"] = "failed" /\ ~connected'
          => pc["client"] = "connect2" /\ ~Listening]_vars
    /\ [][pc["client"] \in ConnectTries /\ Listening /\ pc'["client"] # pc["client"]
          => connected' /\ pc'["client"] = "hs_wait"]_vars

\* both connect() calls were refused
C10_Witness == pc["client"] = "failed" /\ err["client"] = Refused /\ ~connected

\* the body bytes a recv on e has read once this step is taken
BodyRead(e) == Avail(fr[e].data) + Avail(inbox[e]) - Avail(inbox'[e])

\* C11 (exact frame consumption), in its unkeyed case: when recv, past the
\* acknowledgement, reads body bytes that are queued and then ends (returns
\* or raises), it has consumed exactly the declared number of body bytes.
C11_ExactFrame ==
    [][\A e \in Endpoints :
          /\ fr[e].st \in {"r_one", "r_loop"} /\ key[e] = "none"
          /\ inbox[e] # <<>>
          /\ fr'[e].st \in {"ret", "exc"}
          => BodyRead(e) = fr[e].size]_vars

\* the messages e hands to sendall in this step, and the bytes it reads in it
Sent(e) ==
    IF Len(inbox'[Peer(e)]) > Len(inbox[Peer(e)])
    THEN SubSeq(inbox'[Peer(e)], Len(inbox[Peer(e)]) + 1, Len(inbox'[Peer(e)]))
    ELSE <<>>
Consumed(e) == Take(inbox[e], Avail(inbox[e]) - Avail(inbox'[e]))

\* C12 (synchronization ordering): an endpoint hands a body to the socket
\* only in the step of send in which its read of the acknowledgement returned
\* the whole, unaltered token; and a receiver sends its acknowledgement only
\* in the step of recv in which it has read bytes of the stream and parsed
\* them as the length (every other token sent is the sender's own "True",
\* sent together with the body).
C12_SyncOrder ==
    [][\A e \in Endpoints :
          /\ (\E i \in DOMAIN Sent(e) : Sent(e)[i].k = "body")
             => /\ fr[e].st = "s_ack" /\ fr'[e].st = "ret"
                /\ Consumed(e) = <<Whole(AckMsg)>>
                /\ Sent(e) = <<Whole(AckMsg), Whole(BodyMsg(fr[e].val, key[e]))>>
          /\ (\E i \in DOMAIN Sent(e) : Sent(e)[i].k = "ack") /\ fr[e].st # "s_ack"
             => /\ fr[e].st = "r_hdr" /\ fr'[e].st = "r_ack"
                /\ Consumed(e) # <<>>
                /\ Size(fr'[e].size) \in HdrOutcomes(key[e], Consumed(e))
                /\ Sent(e) = <<Whole(AckMsg)>>
          /\ (\E i \in DOMAIN Sent(e) : Sent(e)[i].k = "hdr")
             => Len(Sent(e)) = 1 /\ Consumed(e) = <<>>]_vars

\* a send of the application has returned and its body is on the way
C12_Witness ==
    \E e \in Endpoints :
        /\ pc[e] = "app_send" /\ fr[e].st = "ret"
        /\ \E i \in DOMAIN inbox[Peer(e)] :
              inbox[Peer(e)][i].k = "body" /\ inbox[Peer(e)][i].v \in AppValues

\* C13 (bounded reads): whenever an endpoint waits in a read of its connection
\* socket with nothing queued, while its peer is constructed and in no call
\* (so that nothing is on its way), the read can end in a timeout error.
C13_BoundedReads ==
    \A e \in Endpoints :
        Blocked(e) /\ Ready(Peer(e)) => ENABLED Timeout(e)

\* C14 (failed confirmation): when the initiator's hash check of the received
\* confirmation does not succeed, or the acknowledgement the listener received
\* is not its confirmation value, the step that leaves the check leaves the
\* endpoint's key as the constructor set it; and an endpoint that has not
\* reached Confirmed holds the key it was constructed with.
C14_FailedConfirmation ==
    /\ [][/\ pc["client"] = "hs_getconf" /\ Returned("client")
          /\ fr["client"].val # "conf" /\ pc'["client"] # "hs_getconf"
          => /\ key'["client"] = key0["client"]
             /\ pc'["client"] \in {"ready", "failed"}
             /\ inbox'["server"] = inbox["server"]]_vars
    /\ [][/\ pc["server"] = "hs_getack" /\ Returned("server")
          /\ fr["server"].val # "conf_data" /\ pc'["server"] # "hs_getack"
          => key'["server"] = key0["server"] /\ pc'["server"] = "ready"]_vars
    /\ [](\A e \in Endpoints :
             hstate[e] # "Confirmed" => key[e] \in {"unset", key0[e]})

\* both confirmations failed: the initiator's hash check, and then the
\* listener's comparison with what the initiator sent next
C14_Witness ==
    /\ Done("client") /\ hstate["client"] = "Offered"
    /\ Done("server") /\ hstate["server"] = "KeyReceived"
    /\ key["client"] = key0["client"] /\ key["server"] = key0["server"]

\* C15 (unkeyed handshake): every message an endpoint hands to the socket
\* from within create_secure_connection, whatever key its constructor was
\* given, is framed without a key.
C15_UnkeyedHandshake ==
    [][\A e \in Endpoints :
          pc[e] \in HsPcs \cup {"accept"}
          => \A i \in DOMAIN Sent(e) : Sent(e)[i].key = "none"]_vars

\* C16 (key stability): self.key is written by the constructor's assignment,
\* and after that at most once, by the last step of the handshake, which
\* replaces the constructor's key by the session key; no step of an endpoint
\* whose create_secure_connection has returned changes it.
C16_KeyStability ==
    [][\A e \in Endpoints :
          /\ key'[e] # key[e] =>
                \/ /\ key[e] = "unset" /\ key'[e] = key0[e]
                   /\ pc[e] \in {"accept"} \cup ConnectTries
                \/ /\ key[e] = key0[e] /\ key'[e] \notin {"unset", key0[e]}
                   /\ pc[e] \in {"hs_getack", "hs_sendack"} /\ pc'[e] = "ready"
                   /\ hstate[e] # "Confirmed" /\ hstate'[e] = "Confirmed"
          /\ Done(e) => key'[e] = key[e]
          /\ hstate[e] = "Confirmed" => key'[e] = key[e]]_vars

\* an endpoint that adopted the session key has since finished two calls of
\* the application
C16_Witness ==
    \E e \in Endpoints :
        /\ hstate[e] = "Confirmed" /\ key[e] = "SP" /\ key0[e] # "SP"
        /\ Len(results[e]) = 2

\* C17 (listener adoption implies initiator adoption): once the listener has
\* adopted a session key, the initiator has passed its hash check: it is
\* returning from the send of its acknowledgement, about to adopt the key,
\* or it has adopted the very key the listener holds and its constructor has
\* returned.  It has not failed, and it holds no other key once it is done.
C17_ListenerImpliesInitiator ==
    hstate["server"] = "Confirmed" =>
        /\ key["server"] = sp
        /\ \/ /\ pc["client"] = "hs_sendack" /\ fr["client"].st = "ret"
              /\ fr["client"].val = "True"
           \/ /\ Done("client") /\ hstate["client"] = "Confirmed"
              /\ key["client"] = key["server"]

\* both have adopted the session key although a byte was altered on the way
C17_Witness ==
    /\ hstate["server"] = "Confirmed" /\ hstate["client"] = "Confirmed"
    /\ key["server"] = "SP" /\ key["client"] = "SP"
    /\ faults > 0

\* C18 (retry on a frame boundary): an attempt of the initiator's wait loop
\* that ends in a socket timeout which the loop catches and follows with
\* another recv timed out in its first read, the read of the length header:
\* it has consumed no byte and sent no acknowledgement.
C18_RetryOnBoundary ==
    [][/\ pc["client"] = "hs_wait" /\ LoopGoesOn(attempts)
       /\ fr["client"].st # "exc"
       /\ fr'["client"].st = "exc" /\ fr'["client"].err = "timeout"
       => fr["client"].st = "r_hdr"]_vars

\* a send of the application on e is waiting for the token (its header is sent)
InSend(e) == pc[e] = "app_send" /\ fr[e].st = "s_ack"

\* the sends of e and of its peer cross: e has sent its header and waits for
\* the token, and what is queued for it is a length header the peer has sent
Crossing(e) ==
    /\ key[e] = "none" /\ key[Peer(e)] = "none"
    /\ InSend(e)
    /\ inbox[e] # <<>> /\ Head(inbox[e]).k = "hdr"

\* C19 (simultaneous sends): on a connection without keys, when both
\* endpoints are in send and each has sent its header, both sends cross; and
\* a send that crosses does not time out: it ends by failing with the desync
\* ConnectionError, handing nothing more to the socket.
C19_SimultaneousSends ==
    /\ [](InSend("server") /\ InSend("client")
          /\ Len(calls["server"]) = 1 /\ Len(calls["client"]) = 1
          => \A e \in Endpoints : key[e] = "none" => Crossing(e))
    /\ [][\A e \in Endpoints :
             Crossing(e) /\ fr'[e] # fr[e]
             => /\ fr'[e].st = "exc" /\ fr'[e].err = "ConnectionError"
                /\ Sent(e) = <<>>]_vars

\* both sends have failed with the desync error
C19_Witness ==
    \A e \in Endpoints :
        /\ key[e] = "none" /\ Len(calls[e]) = 1 /\ calls[e][1].op = "send"
        /\ results[e] = <<Outcome(FALSE, "ConnectionError")>>
        /\ \A i \in DOMAIN inbox[e] : inbox[e][i].k # "body"

\* C20 (handshake liveness): once the connection is made between two
\* endpoints constructed with the same key argument, create_secure_connection
\* eventually returns on the listener and on the initiator.
C20_HandshakeLiveness ==
    (connected /\ key0["server"] = key0["client"])
        ~> (Done("server") /\ Done("client"))

====
